---- MODULE Spec2Model ----
(***************************************************************************)
(* Job-details extraction endpoint (Netlify function).                     *)
(*                                                                         *)
(* The repository holds four variants of one handler:                      *)
(*   "netlify" src/netlify/functions/extract-job-details.js                *)
(*   "part001" src/unnamed/part_001          (fence stripping, degrade)    *)
(*   "busboy"  src/unnamed/part_000 1..256   (busboy multipart)            *)
(*   "simple"  src/unnamed/part_000 258..406 (JSON body only)              *)
(*                                                                         *)
(* One behaviour of the model is one invocation of handler(event).  The    *)
(* handler is an async function: a step of the model is the code that runs *)
(* between two awaits (the call of replicate.run, the backoff timer).      *)
(***************************************************************************)
EXTENDS Integers, Sequences, FiniteSets, TLC

VARIABLES
    replicate,  \* the module-level Replicate client, shared by all invocations
    peer,       \* another invocation of handler() running in the same process
    variant,    \* which source file is deployed
    event,      \* the request handed to handler()
    pc,         \* "start" | "awaitModel" | "awaitTimer" | "done"
    fields,     \* the handler's job_title, job_description once the body is read
    jobTitle,   \* first argument of extractJobDetailsWithRetry
    jobDescription, \* second argument of extractJobDetailsWithRetry
    attempt,    \* the loop variable of extractJobDetailsWithRetry
    calls,      \* number of replicate.run invocations so far
    waits,      \* the setTimeout delays awaited so far, in order (ms)
    outcomes,   \* kind of outcome of each attempt so far, in order
    maxRetries, \* third parameter of extractJobDetailsWithRetry
    prompt,     \* the const prompt of extractJobDetailsWithRetry
    inputs,     \* the input objects handed to replicate.run so far, in order
    output,     \* the text the latest call resolved with, before any cleaning
    responseText, \* the latest attempt's responseText, as handed to JSON.parse
    lastError,  \* `error` of catch (error) in the current iteration, if entered
    fnResult,   \* completion of extractJobDetailsWithRetry
    response    \* what handler() returned

vars == <<replicate, peer, variant, event, pc, fields, jobTitle, jobDescription, attempt, calls,
          waits, outcomes, maxRetries, prompt, inputs, output, responseText,
          lastError, fnResult, response>>

(***************************************************************************)
(* JavaScript values.  Every value is a record [t, v]: t is the result of  *)
(* typeof (with "null" kept apart from "object"), v a printed form.        *)
(***************************************************************************)
JS(t, v) == [t |-> t, v |-> v]
Null == JS("null", "null")
Undefined == JS("undefined", "undefined")
Str(s) == JS("string", s)
Num(n) == JS("number", n)

\* ToBoolean of a value, as used by `x && ...`, `!x`, `x || y`
Truthy(x) ==
    /\ x.t \notin {"null", "undefined"}
    /\ ~(x.t = "string" /\ x.v = "")
    /\ ~(x.t = "number" /\ x.v \in {"0", "NaN"})
    /\ ~(x.t = "boolean" /\ x.v = "false")

\* a || b
Or(a, b) == IF Truthy(a) THEN a ELSE b

(***************************************************************************)
(* Objects with the keys the code reads.  An absent key reads as           *)
(* undefined, so an object is a record whose absent keys hold Undefined.   *)
(***************************************************************************)
Obj(jt, c, wa, ex, co) ==
    [job_title |-> jt, city |-> c, work_arrangement |-> wa,
     experience |-> ex, company |-> co]

NoObj == Obj(Undefined, Undefined, Undefined, Undefined, Undefined)

\* a value JSON.parse can give: an object, null or another primitive
ObjectValue(o) == [t |-> "object", o |-> o]
NullValue == [t |-> "null", o |-> NoObj]
NumberValue == [t |-> "number", o |-> NoObj]
NoValue == [t |-> "none", o |-> NoObj]

\* value.key for a non-null value (a primitive has no such property)
Get(value, key) == IF value.t = "object" THEN value.o[key] ELSE Undefined

(***************************************************************************)
(* Text returned by the model.  fence: whether a Markdown code fence       *)
(* wraps the payload; pad: white space around the whole text; the payload  *)
(* is either the JSON text of a value or text that is no JSON at all.      *)
(***************************************************************************)
Text(fence, pad, syntax, value) ==
    [fence |-> fence, pad |-> pad, syntax |-> syntax, value |-> value]

NoText == Text("none", FALSE, "none", NoValue)

\* String.prototype.trim
Trim(text) == [text EXCEPT !.pad = FALSE]

\* JSON.parse(text): the value, or a SyntaxError
ParseOk(v) == [ok |-> TRUE, value |-> v]
ParseFail == [ok |-> FALSE, value |-> NoValue]

JSONParse(text) ==
    IF text.fence = "none" /\ text.syntax = "json"
    THEN ParseOk(text.value)
    ELSE ParseFail

(***************************************************************************)
(* Error messages.  A message is kept in parts: a fixed text m, and for    *)
(* the template literals the values substituted into it.                   *)
(***************************************************************************)
Message(prefix, m, n, text) ==
    [prefix |-> prefix, m |-> m, n |-> n, text |-> text]

NoMessage == Message("", "", 0, NoText)

\* error.message of an Error thrown by replicate.run
CallError(m) == Message("", m, 0, NoText)

\* output.join(...) on an output that is no array
JoinTypeError == Message("", "output.join is not a function", 0, NoText)

\* `Failed to extract valid JSON after ${maxRetries} attempts. Last response: ${responseText}`
ExhaustedError(n, text) ==
    Message("", "Failed to extract valid JSON after ${maxRetries} attempts. Last response: ${responseText}",
            n, text)

\* "Failed to parse AI response as JSON"
ParseFallbackError == Message("", "Failed to parse AI response as JSON", 0, NoText)

\* mutant: the message of the error is left out
CallFallbackError_NoMessage(e) == Message("AI processing failed: ", "", 0, NoText)

\* `AI processing failed: ${error.message}`
CallFallbackError(e) == [e EXCEPT !.prefix = "AI processing failed: "]

(***************************************************************************)
(* extractJobDetailsWithRetry: the constants of the loop.                  *)
(***************************************************************************)
DefaultMaxRetries == 3
BackoffUnit == 1000
MaxNewTokens == 200

\* `${x}` in a template literal: the printed form of the value
ToText(x) == x.v

\* the instruction text around the two values: part_001 asks for company too
PromptTemplate(v) ==
    IF v = "part001" THEN "job details with company" ELSE "job details"

\* const prompt = `... Job Title: ${jobTitle} Job Description: ${jobDescription} ...`
Render(v, title, description) ==
    [template |-> PromptTemplate(v), title |-> ToText(title),
     description |-> ToText(description)]

NoPrompt == [template |-> "", title |-> "", description |-> ""]

\* mutant: the output cap grows with the attempt number
Input_GrowingCap(p, n) == [prompt |-> p, max_new_tokens |-> MaxNewTokens * n]

\* const input = { prompt: prompt, max_new_tokens: 200 } of iteration n
Input(p, n) == [prompt |-> p, max_new_tokens |-> MaxNewTokens]

WorkArrangements == {"remote", "hybrid", "on-site"}

ExperienceLabels ==
    {"Entry (0-2 Years)", "Mid (3-5 Years)", "Senior (6-8 Years)", "Lead (8+ Years)"}

\* x === null || typeof x === 'string'
IsNullOrString(x) == x = Null \/ x.t = "string"

\* mutant: the comparison ignores which string it is given
IsNullOrIn_AnyString(x, list) == x = Null \/ x.t = "string"

\* x === null || list.includes(x)
IsNullOrIn(x, list) == x = Null \/ (x.t = "string" /\ x.v \in list)

\* the `if` that guards `return jsonResult` (variants without company)
ValidateBase(value) ==
    /\ Truthy(Get(value, "job_title"))
    /\ IsNullOrString(Get(value, "city"))
    /\ IsNullOrIn(Get(value, "work_arrangement"), WorkArrangements)
    /\ IsNullOrIn(Get(value, "experience"), ExperienceLabels)

\* the `if` that guards `return jsonResult` in part_001
ValidateWithCompany(value) ==
    /\ Truthy(Get(value, "job_title"))
    /\ IsNullOrString(Get(value, "city"))
    /\ IsNullOrIn(Get(value, "work_arrangement"), WorkArrangements)
    /\ IsNullOrString(Get(value, "company"))
    /\ IsNullOrIn(Get(value, "experience"), ExperienceLabels)

Validate(v, value) ==
    IF v = "part001" THEN ValidateWithCompany(value) ELSE ValidateBase(value)

\* part_001 removes a leading ```json or ``` and a trailing ```
StripFence(text) == [text EXCEPT !.fence = "none"]

\* from the resolved output to the text handed to JSON.parse
CleanResponse(v, raw) ==
    IF v = "part001" THEN Trim(StripFence(Trim(raw))) ELSE Trim(raw)

\* mutant: the same delay after every attempt
Backoff_Constant(n) == BackoffUnit

\* delay of the setTimeout that follows attempt n
Backoff(n) == BackoffUnit * n

\* attempt === maxRetries
IsLastAttempt(n, max) == n = max

\* mutant: the loop runs one iteration too many
LoopContinues_OneMore(n, max) == n <= max + 1

\* the for loop's condition
LoopContinues(n, max) == n <= max

(***************************************************************************)
(* How a call of extractJobDetailsWithRetry ends.                          *)
(***************************************************************************)
FnResult(kind, source, obj, error) ==
    [kind |-> kind, source |-> source, obj |-> obj, error |-> error]

NotCalled == FnResult("notcalled", "", NoObj, NoMessage)
Pending == FnResult("pending", "", NoObj, NoMessage)
\* return jsonResult
Returned(value) == FnResult("return", "model", value.o, NoMessage)
\* the loop ends and the function body falls off its end
ReturnedUndefined == FnResult("undefined", "", NoObj, NoMessage)
\* throw error
Thrown(e) == FnResult("throw", "", NoObj, e)
\* mutant: the degraded record does not echo the title
Fallback_NoEcho(title, e) ==
    FnResult("return", "fallback", Obj(Null, Null, Null, Null, Null), e)

\* part_001: return { job_title: jobTitle, city: null, ..., error }
Fallback(title, e) ==
    FnResult("return", "fallback", Obj(title, Null, Null, Null, Null), e)

(***************************************************************************)
(* One iteration of the loop, from the settling of replicate.run to the    *)
(* next await or to the end of the function.                               *)
(***************************************************************************)
Step(kind, next, result, text) ==
    [kind |-> kind, next |-> next, result |-> result, text |-> text]

\* mutant: the last attempt's error is rethrown in every variant
OuterCatch_Rethrow(v, n, max, title, e) ==
    IF IsLastAttempt(n, max) THEN Thrown(e) ELSE Pending

\* catch (error) { ... if (attempt === maxRetries) ... }
OuterCatch(v, n, max, title, e) ==
    IF IsLastAttempt(n, max)
    THEN IF v = "part001" THEN Fallback(title, CallFallbackError(e)) ELSE Thrown(e)
    ELSE Pending

\* mutant: a parse failure on the last attempt falls through to the wait
InnerCatch_FallsThrough(v, n, max, title, text) == Pending

\* catch (parseError) { ... if (attempt === maxRetries) ... }
InnerCatch(v, n, max, title, text) ==
    IF IsLastAttempt(n, max)
    THEN IF v = "part001"
         THEN Fallback(title, ParseFallbackError)
         ELSE OuterCatch(v, n, max, title, ExhaustedError(max, text))
    ELSE Pending

\* mutant: a valid object does not end the loop
AfterValid_Continue(value) == Pending

\* the validation `if` holds: return jsonResult
AfterValid(value) == Returned(value)

\* what follows a parsed value that fails the validation `if`
AfterInvalid(v, n, max, title) == Pending

\* mutant: the handler goes on while the loop is still waiting
NextOf_NoWait(result) ==
    CASE result.kind = "throw" -> "throw"
      [] OTHER -> "return"

\* where the iteration goes: to the backoff wait, or out of the function
NextOf(result) ==
    CASE result.kind = "pending" -> "wait"
      [] result.kind = "throw" -> "throw"
      [] OTHER -> "return"

\* the inner catch throws on the last attempt: throw new Error(`Failed ...`)
InnerThrows(v, n, max) == IsLastAttempt(n, max) /\ v # "part001"

\* catch (error): the error the outer catch binds in this iteration, if any
CaughtError(v, n, max, r) ==
    IF r.kind = "reject" THEN r.err
    ELSE IF ~r.isArray THEN JoinTypeError
    ELSE LET text == CleanResponse(v, r.text)
             p == JSONParse(text)
         IN  IF (~p.ok \/ p.value.t = "null") /\ InnerThrows(v, n, max)
             THEN ExhaustedError(max, text)
             ELSE NoMessage

\* r: the settled call, [kind, err, isArray, text]
AttemptStep(v, n, max, title, r) ==
    IF r.kind = "reject"
    THEN LET res == OuterCatch(v, n, max, title, r.err)
         IN  Step("callfail", NextOf(res), res, NoText)
    ELSE IF ~r.isArray
    THEN LET res == OuterCatch(v, n, max, title, JoinTypeError)
         IN  Step("nonarray", NextOf(res), res, NoText)
    ELSE LET text == CleanResponse(v, r.text)
             p == JSONParse(text)
         IN  IF ~p.ok
             THEN LET res == InnerCatch(v, n, max, title, text)
                  IN  Step("nonjson", NextOf(res), res, text)
             ELSE IF p.value.t = "null"
             THEN \* null.job_title throws inside the inner try
                  LET res == InnerCatch(v, n, max, title, text)
                  IN  Step("jsonnull", NextOf(res), res, text)
             ELSE IF Validate(v, p.value)
             THEN LET res == AfterValid(p.value)
                  IN  Step("valid", NextOf(res), res, text)
             ELSE LET res == AfterInvalid(v, n, max, title)
                  IN  Step("invalid", NextOf(res), res, text)

(***************************************************************************)
(* The request.  event.headers holds the content type under the key        *)
(* 'content-type' (lower) or 'Content-Type' (upper); event.body is a       *)
(* string in one of the encodings below, or null ("absent");               *)
(* event.queryStringParameters is a map or null.                           *)
(***************************************************************************)
Body(enc, t, d) == [enc |-> enc, job_title |-> t, job_description |-> d]
Query(present, t, d) == [present |-> present, job_title |-> t, job_description |-> d]
NoQuery == Query(FALSE, Undefined, Undefined)
Event(method, lower, upper, body, query) ==
    [httpMethod |-> method, headers |-> [lower |-> lower, upper |-> upper],
     body |-> body, queryStringParameters |-> query]

JsonType == "application/json"
FormType == "application/x-www-form-urlencoded"
MultipartType == "multipart/form-data; boundary=XYZ"
MultipartNoBoundary == "multipart/form-data"
PlainType == "text/plain"

\* contentType.includes(mime), for the header values above
Includes(ct, mime) ==
    \/ ct = mime
    \/ ct = "application/json; charset=utf-8" /\ mime = JsonType
    \/ ct \in {MultipartType, MultipartNoBoundary} /\ mime = "multipart/form-data"

\* contentType.split('boundary=')[1], truthy or not
HasBoundary(ct) == ct = MultipartType

\* event.headers['content-type'] || event.headers['Content-Type'] || ''
ContentType(e) == Or(Or(e.headers.lower, e.headers.upper), Str("")).v

(***************************************************************************)
(* Texts of field values.  The parsers look at a text character by         *)
(* character; a text is cut here into the pieces they tell apart: white    *)
(* space, line breaks, '+', percent escapes, and the runs in between.      *)
(***************************************************************************)
Title1 == Str("Senior Data Engineer, Acme Corp, Remote")
Title2 == Str(" Data Engineer ")
Desc1 == Str("5+ years of experience. Richmond, Virginia, USA")
\* a value of two lines
Desc2 == Str("Build data pipelines.\r\nRemote, 5+ years.")
\* values as a form-urlencoded body writes them
FormTitle1 == Str("Data+Engineer")
FormTitle2 == Str("C%2B%2B%20Developer")
FormDesc1 == Str("Remote%2C+5%2B+years")

Tokens(s) ==
    CASE s = "" -> <<>>
      [] s = Title2.v -> <<" ", "Data Engineer", " ">>
      [] s = Desc1.v -> <<"5", "+", " ", "years of experience. Richmond, Virginia, USA">>
      [] s = Desc2.v -> <<"Build data pipelines.", "\r\n", "Remote, 5", "+", " ", "years.">>
      [] s = FormTitle1.v -> <<"Data", "+", "Engineer">>
      [] s = FormTitle2.v -> <<"C", "%2B", "%2B", "%20", "Developer">>
      [] s = FormDesc1.v -> <<"Remote", "%2C", "+", "5", "%2B", "+", "years">>
      [] OTHER -> <<s>>

RECURSIVE Join(_)
Join(tokens) == IF tokens = <<>> THEN "" ELSE Head(tokens) \o Join(Tail(tokens))

\* \s of a regular expression, and the white space String.prototype.trim removes
IsSpace(tok) == tok \in {" ", "\t", "\n", "\r\n"}
\* \r?\n
IsBreak(tok) == tok \in {"\n", "\r\n"}

RECURSIVE TrimStart(_)
TrimStart(tokens) ==
    IF tokens # <<>> /\ IsSpace(Head(tokens)) THEN TrimStart(Tail(tokens)) ELSE tokens

RECURSIVE TrimEnd(_)
TrimEnd(tokens) ==
    IF tokens # <<>> /\ IsSpace(tokens[Len(tokens)])
    THEN TrimEnd(SubSeq(tokens, 1, Len(tokens) - 1))
    ELSE tokens

\* String.prototype.trim on a text
TrimTokens(tokens) == TrimEnd(TrimStart(tokens))

\* value.trim() for a string value
TrimValue(x) == IF x.t = "string" THEN Str(Join(TrimTokens(Tokens(x.v)))) ELSE x

\* name="..."\s*\r?\n\r?\n : the greedy \s* runs over the blank lines a value
\* starts with; the capture starts after the last pair of line breaks
CaptureStart(tokens) ==
    LET ends == {i \in 0..Len(tokens) :
                    /\ \A j \in 1..i : IsSpace(tokens[j])
                    /\ i = 0 \/ (IsBreak(tokens[i]) /\ (i = 1 \/ IsBreak(tokens[i - 1])))}
    IN  CHOOSE i \in ends : \A j \in ends : j <= i

\* (.*?)(?:\r?\n|$) : the lazy capture ends at the first line break
RECURSIVE FirstLine(_)
FirstLine(tokens) ==
    IF tokens = <<>> \/ IsBreak(Head(tokens)) THEN <<>>
    ELSE <<Head(tokens)>> \o FirstLine(Tail(tokens))

\* part.match(/name="..."\s*\r?\n\r?\n(.*?)(?:\r?\n|$)/s), then match[1].trim()
PartValue(x) ==
    IF x.t # "string" THEN Undefined
    ELSE LET tokens == Tokens(x.v)
             from == CaptureStart(tokens)
         IN  Str(Join(TrimTokens(FirstLine(SubSeq(tokens, from + 1, Len(tokens))))))

\* the decoding of application/x-www-form-urlencoded: '+' is a space, %XX a byte
DecodeToken(tok) ==
    CASE tok = "+" -> " "
      [] tok = "%20" -> " "
      [] tok = "%2B" -> "+"
      [] tok = "%2C" -> ","
      [] OTHER -> tok

RECURSIVE DecodeTokens(_)
DecodeTokens(tokens) ==
    IF tokens = <<>> THEN <<>>
    ELSE <<DecodeToken(Head(tokens))>> \o DecodeTokens(Tail(tokens))

(***************************************************************************)
(* Reading job_title and job_description from the body.                    *)
(***************************************************************************)
\* let job_title, job_description; before any branch has run
NoFields ==
    [kind |-> "none", job_title |-> Undefined, job_description |-> Undefined,
     status |-> 0, error |-> "", err |-> NoMessage]

Fields(t, d) ==
    [kind |-> "fields", job_title |-> t, job_description |-> d,
     status |-> 0, error |-> "", err |-> NoMessage]
Throws(e) ==
    [kind |-> "throw", job_title |-> Undefined, job_description |-> Undefined,
     status |-> 0, error |-> "", err |-> e]
\* mutant: the early returns answer with a status of their own
Responds_OtherStatus(status, error, details) ==
    [kind |-> "respond", job_title |-> Undefined, job_description |-> Undefined,
     status |-> 422, error |-> error, err |-> details]

Responds(status, error, details) ==
    [kind |-> "respond", job_title |-> Undefined, job_description |-> Undefined,
     status |-> status, error |-> error, err |-> details]

SyntaxError == CallError("SyntaxError: Unexpected token in JSON")
NullTypeError == CallError("TypeError: Cannot read properties of null")

\* mutant: the fields of a JSON body are trimmed
JsonFields_Trimmed(body) ==
    CASE body.enc = "json" -> Fields(TrimValue(body.job_title), TrimValue(body.job_description))
      [] body.enc = "jsonprimitive" -> Fields(Undefined, Undefined)
      [] body.enc \in {"jsonnull", "absent"} -> Throws(NullTypeError)
      [] OTHER -> Throws(SyntaxError)

\* const body = JSON.parse(event.body); body.job_title; body.job_description
JsonFields(body) ==
    CASE body.enc = "json" -> Fields(body.job_title, body.job_description)
      [] body.enc = "jsonprimitive" -> Fields(Undefined, Undefined)
      [] body.enc \in {"jsonnull", "absent"} -> Throws(NullTypeError)
      [] OTHER -> Throws(SyntaxError)

\* mutant: percent escapes are decoded, '+' is kept (decodeURIComponent)
ParamsGet_PlusKept(body, key) ==
    IF body.enc = "urlencoded" /\ body[key].t = "string"
    THEN Str(Join([i \in DOMAIN Tokens(body[key].v) |->
                    IF Tokens(body[key].v)[i] = "+" THEN "+"
                    ELSE DecodeToken(Tokens(body[key].v)[i])]))
    ELSE Null

\* URLSearchParams.get: the decoded value, or null when the key is absent
ParamsGet(body, key) ==
    IF body.enc = "urlencoded" /\ body[key].t = "string"
    THEN Str(Join(DecodeTokens(Tokens(body[key].v))))
    ELSE Null

\* new URLSearchParams(event.body), then get of both keys
FormFields(body) ==
    Fields(ParamsGet(body, "job_title"), ParamsGet(body, "job_description"))

\* the boundary-splitting parser of extract-job-details.js and part_001
ManualMultipart(v, ct, body) ==
    IF body.enc = "absent"
    THEN IF v = "part001" /\ HasBoundary(ct)
         THEN Throws(NullTypeError)    \* event.body.split on null
         ELSE Fields(Undefined, Undefined)
    ELSE IF HasBoundary(ct) /\ body.enc = "multipart"
    THEN Fields(PartValue(body.job_title), PartValue(body.job_description))
    ELSE Fields(Undefined, Undefined)

\* mutant: a rejection of the parser leaves the fields undefined
BusboyFields_Swallow(e) ==
    IF e.headers.lower # Undefined /\ HasBoundary(e.headers.lower.v)
       /\ e.body.enc = "multipart"
    THEN Fields(e.body.job_title, e.body.job_description)
    ELSE Fields(Undefined, Undefined)

\* part_000: await parseMultipartForm(event) inside try/catch
BusboyFields(e) ==
    IF e.headers.lower # Undefined /\ HasBoundary(e.headers.lower.v)
       /\ e.body.enc = "multipart"
    THEN Fields(e.body.job_title, e.body.job_description)
    ELSE Responds(400, "Error parsing multipart form data",
                  CallError("busboy error"))

InvalidFormat == "Invalid request format. Use JSON or URL-encoded form data."

\* the content-type dispatch of the handler
\* mutant: the default branch parses without its own try/catch
DefaultFields_NoCatch(body) == JsonFields(body)

\* else { try { JSON.parse(event.body) ... } catch (parseError) { return 400 } }
DefaultFields(body) ==
    LET j == JsonFields(body)
    IN  IF j.kind = "throw" THEN Responds(400, InvalidFormat, NoMessage) ELSE j

ParseBody(v, e) ==
    LET ct == ContentType(e) IN
    IF v = "simple" THEN JsonFields(e.body)
    ELSE IF Includes(ct, JsonType) THEN JsonFields(e.body)
    ELSE IF Includes(ct, FormType) THEN FormFields(e.body)
    ELSE IF Includes(ct, "multipart/form-data")
    THEN IF v = "busboy" THEN BusboyFields(e) ELSE ManualMultipart(v, ct, e.body)
    ELSE DefaultFields(e.body)

\* mutant: the query parameters win over the body's fields
QueryFallback_Overrides(v, f, q) ==
    IF /\ v \in {"netlify", "busboy"}
       /\ f.kind = "fields"
       /\ ~Truthy(f.job_title) \/ ~Truthy(f.job_description)
       /\ q.present
    THEN Fields(Or(q.job_title, f.job_title), Or(q.job_description, f.job_description))
    ELSE f

\* if ((!job_title || !job_description) && event.queryStringParameters) {...}
QueryFallback(v, f, q) ==
    IF /\ v \in {"netlify", "busboy"}
       /\ f.kind = "fields"
       /\ ~Truthy(f.job_title) \/ ~Truthy(f.job_description)
       /\ q.present
    THEN Fields(Or(f.job_title, q.job_title), Or(f.job_description, q.job_description))
    ELSE f

\* body parsing and fallback: the fields the validation looks at
Normalize(v, e) == QueryFallback(v, ParseBody(v, e), e.queryStringParameters)

\* mutant: only job_title is required
MissingFields_TitleOnly(f) == ~Truthy(f.job_title)

\* if (!job_title || !job_description)
MissingFields(f) == ~Truthy(f.job_title) \/ ~Truthy(f.job_description)

(***************************************************************************)
(* Responses of the handler.                                               *)
(***************************************************************************)
CorsHeaders ==
    [allowOrigin |-> "*", allowHeaders |-> "Content-Type",
     allowMethods |-> "POST, OPTIONS", contentType |-> "application/json"]

NoHeaders ==
    [allowOrigin |-> "", allowHeaders |-> "", allowMethods |-> "", contentType |-> ""]

NotReceived == [present |-> FALSE, job_title |-> Undefined, job_description |-> Undefined]

ResponseBody(kind, obj, objError, error, details, received) ==
    [kind |-> kind, obj |-> obj, objError |-> objError, error |-> error,
     details |-> details, received |-> received]

NoBody == ResponseBody("none", NoObj, NoMessage, "", NoMessage, NotReceived)
\* body: ''
EmptyBody == ResponseBody("empty", NoObj, NoMessage, "", NoMessage, NotReceived)
\* JSON.stringify(undefined) is undefined: the response has no body
UndefinedBody == ResponseBody("undefined", NoObj, NoMessage, "", NoMessage, NotReceived)
\* JSON.stringify({ error, details })
ErrorBody(error, details) ==
    ResponseBody("error", NoObj, NoMessage, error, details, NotReceived)
\* JSON.stringify({ error, received: {...}, debug: {...} })
MissingBody(v, f) ==
    ResponseBody("error", NoObj, NoMessage,
                 "Missing required fields: job_title and job_description", NoMessage,
                 IF v \in {"netlify", "busboy"}
                 THEN [present |-> TRUE,
                       job_title |-> Or(f.job_title, Null),
                       job_description |-> Or(f.job_description, Null)]
                 ELSE NotReceived)

\* JSON.stringify(result)
StringifyResult(r) ==
    IF r.kind = "return"
    THEN ResponseBody("result", r.obj, r.error, "", NoMessage, NotReceived)
    ELSE UndefinedBody

\* mutant: only the 200 responses carry the headers
Response_BareErrors(status, body) ==
    [statusCode |-> status,
     headers |-> IF status = 200 THEN CorsHeaders ELSE NoHeaders,
     body |-> body]

Response(status, body) == [statusCode |-> status, headers |-> CorsHeaders, body |-> body]
NoResponse == [statusCode |-> 0, headers |-> NoHeaders, body |-> NoBody]

ExtractFailed == "Failed to extract job details"
MethodNotAllowed == "Method not allowed"

\* the handler's code after `await extractJobDetailsWithRetry(...)`
RespondTo(r) ==
    IF r.kind = "throw"
    THEN Response(500, ErrorBody(ExtractFailed, r.error))
    ELSE Response(200, StringifyResult(r))

(***************************************************************************)
(* Inputs: the requests and the model results the behaviours range over.   *)
(***************************************************************************)
Variants == {"netlify", "part001", "busboy", "simple"}

TitleInputs == {Title1, Title2, Num("5"), Str(""), Null, Undefined}
DescInputs == {Desc1, Str(""), Undefined}
BodyEncodings ==
    {"json", "jsonprimitive", "jsonnull", "urlencoded", "multipart", "garbage",
     "empty", "absent"}
HeaderInputs ==
    {Str(JsonType), Str("application/json; charset=utf-8"), Str(FormType),
     Str(MultipartType), Str(MultipartNoBoundary), Str(PlainType), Undefined}
QueryInputs ==
    {NoQuery, Query(TRUE, Undefined, Undefined), Query(TRUE, Title2, Undefined),
     Query(TRUE, Title2, Desc1)}

BaseBody == Body("json", Title1, Desc1)
FullQuery == Query(TRUE, Title2, Desc1)

\* a well-formed JSON POST, and the requests that differ from it in one or
\* two respects
Events ==
    {Event(m, h, Undefined, Body(enc, Title1, Desc1), q) :
        m \in {"OPTIONS", "GET", "PUT", "DELETE"}, h \in HeaderInputs,
        enc \in BodyEncodings, q \in {NoQuery, FullQuery}}
    \cup {Event("POST", Str(JsonType), Undefined, Body("json", t, d), NoQuery) :
            t \in TitleInputs, d \in DescInputs}
    \cup {Event("POST", Str(JsonType), Undefined, Body("json", t, d), q) :
            t \in {Title1, Undefined}, d \in {Desc1, Str("")}, q \in QueryInputs}
    \cup {Event("POST", h, Undefined, Body(enc, Title1, Desc1), NoQuery) :
            h \in HeaderInputs, enc \in BodyEncodings}
    \cup {Event("POST", h, Undefined, Body(enc, Undefined, Undefined), FullQuery) :
            h \in HeaderInputs, enc \in {"empty", "absent"}}
    \cup {Event("POST", Undefined, h, Body(enc, Title1, Desc1), NoQuery) :
            h \in {Str(JsonType), Str(MultipartType)}, enc \in {"json", "multipart"}}
    \cup {Event("POST", h, Undefined, Body("absent", Undefined, Undefined), Query(TRUE, Title2, Desc1)) :
            h \in HeaderInputs}
    \cup {Event("POST", Str(MultipartType), Undefined, Body("multipart", t, d), NoQuery) :
            t \in {Title1, Title2}, d \in {Desc1, Desc2}}
    \cup {Event("POST", Str(FormType), Undefined, Body("urlencoded", t, FormDesc1), q) :
            t \in {FormTitle1, FormTitle2, Str("")}, q \in {NoQuery}}

BaseNull == Obj(Str("Data Engineer"), Null, Null, Null, Null)
BaseFull ==
    Obj(Str("Senior Data Engineer"), Str("Richmond, VA"), Str("remote"),
        Str("Senior (6-8 Years)"), Str("Acme Corp"))

TitleOutputs == {Str("Data Engineer"), Str(""), Null, Undefined, Num("5")}
StringOutputs == {Null, Undefined, Str("Richmond, VA"), Num("5")}
ArrangementOutputs ==
    {Null, Undefined} \cup {Str(w) : w \in WorkArrangements \cup {"Hybrid", "Remote", "onsite"}}
ExperienceOutputs ==
    {Null, Undefined} \cup {Str(x) : x \in ExperienceLabels \cup {"senior (6-8 years)", "Senior"}}

\* the objects the model may answer with: two valid ones, and every object
\* that differs from the second in one key
ModelObjects ==
    {BaseNull, BaseFull}
    \cup {[BaseFull EXCEPT !.job_title = x] : x \in TitleOutputs}
    \cup {[BaseFull EXCEPT !.city = x] : x \in StringOutputs}
    \cup {[BaseFull EXCEPT !.work_arrangement = x] : x \in ArrangementOutputs}
    \cup {[BaseFull EXCEPT !.experience = x] : x \in ExperienceOutputs}
    \cup {[BaseFull EXCEPT !.company = x] : x \in StringOutputs}

Garbage == Text("none", FALSE, "garbage", NoValue)
Bare(value) == Text("none", FALSE, "json", value)

ModelTexts ==
    {Bare(ObjectValue(o)) : o \in ModelObjects}
    \cup {Bare(NullValue), Bare(NumberValue), Garbage}
    \cup {[Bare(ObjectValue(BaseFull)) EXCEPT !.pad = TRUE], [Garbage EXCEPT !.pad = TRUE]}
    \cup {[t EXCEPT !.fence = f] :
            f \in {"json", "plain"},
            t \in {Bare(ObjectValue(BaseFull)),
                   Bare(ObjectValue([BaseFull EXCEPT !.work_arrangement = Str("Hybrid")])),
                   Bare(NullValue), Garbage}}

Rejected(e) == [kind |-> "reject", err |-> e, isArray |-> FALSE, text |-> NoText]
Resolved(isArray, text) ==
    [kind |-> "resolve", err |-> NoMessage, isArray |-> isArray, text |-> text]

ModelResults ==
    {Rejected(CallError(m)) : m \in {"Prediction failed", "Request timed out"}}
    \cup {Resolved(FALSE, NoText)}
    \cup {Resolved(TRUE, t) : t \in ModelTexts}

\* mutant: no method is taken for a preflight
IsPreflight_Never(e) == FALSE

\* the response to a POST that does not reach the extraction: the catch's 500,
\* a branch's own 400, or the 400 of the missing fields
Rejection(v, f) ==
    CASE f.kind = "throw" -> Response(500, ErrorBody(ExtractFailed, f.err))
      [] f.kind = "respond" -> Response(f.status, ErrorBody(f.error, f.err))
      [] OTHER -> Response(400, MissingBody(v, f))

\* event.httpMethod === 'OPTIONS'
IsPreflight(e) == e.httpMethod = "OPTIONS"

\* mutant: every method passes the POST test
IsPost_Any(e) == TRUE

\* the negation of event.httpMethod !== 'POST'
IsPost(e) == e.httpMethod = "POST"

(***************************************************************************)
(* The state machine.                                                      *)
(***************************************************************************)
\* const replicate = new Replicate({ auth: process.env.REPLICATE_API_TOKEN })
Client == [auth |-> "REPLICATE_API_TOKEN"]

\* the locals of one more invocation: its event, where it stands, the arguments
\* and the loop variable of its extractJobDetailsWithRetry, the results its
\* model calls settled with, and what it returned
Invocation(e, at) ==
    [event |-> e, pc |-> at, jobTitle |-> Undefined, attempt |-> 0, calls |-> 0,
     settled |-> <<>>, fnResult |-> NotCalled, response |-> NoResponse]

\* no other invocation is running
NoPeer == Invocation(Event("POST", Str(JsonType), Undefined, BaseBody, NoQuery), "idle")

processVars == <<replicate, peer>>

InitInvocation ==
    /\ replicate = Client
    /\ variant \in Variants
    /\ event \in Events
    /\ pc = "start"
    /\ fields = NoFields
    /\ jobTitle = Undefined
    /\ jobDescription = Undefined
    /\ attempt = 0
    /\ calls = 0
    /\ waits = <<>>
    /\ outcomes = <<>>
    /\ maxRetries = 0
    /\ prompt = NoPrompt
    /\ inputs = <<>>
    /\ output = NoText
    /\ responseText = NoText
    /\ lastError = NoMessage
    /\ fnResult = NotCalled
    /\ response = NoResponse

\* one invocation of the handler, alone in its process
Init ==
    /\ InitInvocation
    /\ peer = NoPeer

loopVars == <<jobTitle, jobDescription, attempt, calls, waits, outcomes,
              maxRetries, prompt, inputs, output, responseText, lastError, fnResult>>

\* if (event.httpMethod === 'OPTIONS') return { statusCode: 200, headers, body: '' }
HandlerPreflight ==
    /\ pc = "start"
    /\ IsPreflight(event)
    /\ response' = Response(200, EmptyBody)
    /\ pc' = "done"
    /\ UNCHANGED <<processVars, variant, event, fields, loopVars>>

\* if (event.httpMethod !== 'POST') return { statusCode: 405, ... }
HandlerMethodNotAllowed ==
    /\ pc = "start"
    /\ ~IsPreflight(event)
    /\ ~IsPost(event)
    /\ response' = Response(405, ErrorBody(MethodNotAllowed, NoMessage))
    /\ pc' = "done"
    /\ UNCHANGED <<processVars, variant, event, fields, loopVars>>

\* a POST that ends before the model is called: 400, or 500 from the catch
HandlerRejects ==
    /\ pc = "start"
    /\ ~IsPreflight(event)
    /\ IsPost(event)
    /\ LET f == Normalize(variant, event) IN
       /\ f.kind # "fields" \/ MissingFields(f)
       /\ fields' = f
       /\ response' = Rejection(variant, f)
    /\ pc' = "done"
    /\ UNCHANGED <<processVars, variant, event, loopVars>>

\* a POST with both fields: extractJobDetailsWithRetry(job_title, job_description)
\* runs up to its first await, the call of replicate.run
HandlerCallsExtraction ==
    /\ pc = "start"
    /\ ~IsPreflight(event)
    /\ IsPost(event)
    /\ LET f == Normalize(variant, event) IN
       /\ f.kind = "fields" /\ ~MissingFields(f)
       /\ fields' = f
       /\ jobTitle' = f.job_title
       /\ jobDescription' = f.job_description
       /\ prompt' = Render(variant, f.job_title, f.job_description)
       /\ inputs' = <<Input(Render(variant, f.job_title, f.job_description), 1)>>
    /\ maxRetries' = DefaultMaxRetries
    /\ attempt' = 1
    /\ calls' = 1
    /\ fnResult' = Pending
    /\ pc' = "awaitModel"
    /\ UNCHANGED <<processVars, variant, event, waits, outcomes, output, responseText, lastError,
                   response>>

\* replicate.run settles: the rest of the iteration, up to the backoff timer
\* or to the handler's return
ModelSettles ==
    /\ pc = "awaitModel"
    /\ \E r \in ModelResults :
        LET step == AttemptStep(variant, attempt, maxRetries, jobTitle, r) IN
        /\ outcomes' = Append(outcomes, step.kind)
        /\ responseText' = step.text
        /\ lastError' = CaughtError(variant, attempt, maxRetries, r)
        /\ output' = IF r.kind = "resolve" /\ r.isArray THEN r.text ELSE NoText
        /\ IF step.next = "wait"
           THEN /\ waits' = Append(waits, Backoff(attempt))
                /\ pc' = "awaitTimer"
                /\ UNCHANGED <<fnResult, response>>
           ELSE /\ fnResult' = step.result
                /\ response' = RespondTo(step.result)
                /\ pc' = "done"
                /\ UNCHANGED waits
    /\ UNCHANGED <<processVars, variant, event, fields, jobTitle, jobDescription, attempt, calls,
                   maxRetries, prompt, inputs>>

\* the backoff timer fires: attempt++, the loop test, and either the next
\* call of replicate.run or the end of the function
TimerFires ==
    /\ pc = "awaitTimer"
    /\ attempt' = attempt + 1
    /\ responseText' = NoText
    /\ lastError' = NoMessage
    /\ output' = NoText
    /\ IF LoopContinues(attempt + 1, maxRetries)
       THEN /\ calls' = calls + 1
            /\ inputs' = Append(inputs, Input(prompt, attempt + 1))
            /\ pc' = "awaitModel"
            /\ UNCHANGED <<fnResult, response>>
       ELSE /\ fnResult' = ReturnedUndefined
            /\ response' = RespondTo(ReturnedUndefined)
            /\ pc' = "done"
            /\ UNCHANGED <<calls, inputs>>
    /\ UNCHANGED <<processVars, variant, event, fields, jobTitle, jobDescription, waits, outcomes,
                   maxRetries, prompt>>

Next ==
    \/ HandlerPreflight
    \/ HandlerMethodNotAllowed
    \/ HandlerRejects
    \/ HandlerCallsExtraction
    \/ ModelSettles
    \/ TimerFires

Spec == Init /\ [][Next]_vars

(***************************************************************************)
(* Two invocations in one process.  Node runs one piece of code at a time: *)
(* a step of the second invocation, like a step of the first, is the code  *)
(* between two awaits, and the steps of the two interleave in any order.   *)
(***************************************************************************)
mainVars == <<variant, event, pc, fields, loopVars, response>>

\* the model results the second invocation's calls settle with
PeerResults ==
    {Rejected(CallError("Prediction failed")),
     Resolved(TRUE, Garbage),
     Resolved(TRUE, Bare(ObjectValue(BaseFull))),
     Resolved(TRUE, Bare(ObjectValue([BaseFull EXCEPT !.experience = Str("Senior")])))}

PeerEvents ==
    {Event("OPTIONS", Str(JsonType), Undefined, BaseBody, NoQuery),
     Event("POST", Str(JsonType), Undefined, Body("json", Title2, Desc1), NoQuery)}

ConcEvents ==
    {Event(m, Str(JsonType), Undefined, BaseBody, NoQuery) : m \in {"OPTIONS", "GET", "POST"}}
    \cup {Event("POST", Str(JsonType), Undefined, Body("json", Title1, Str("")), NoQuery)}

ConcInit ==
    /\ InitInvocation
    /\ variant \in {"netlify", "part001"}
    /\ event \in ConcEvents
    /\ peer \in {Invocation(e, "start") : e \in PeerEvents}

\* mutant: the loop variable is one variable of the module, not of the call
OwnAttempt_Shared(own, other) == other

\* for (let attempt = 1; ...): each call of the function has its own attempt
OwnAttempt(own, other) == own

\* the second invocation's handler, up to its return or to its first await
PeerHandler ==
    /\ peer.pc = "start"
    /\ peer' =
         IF IsPreflight(peer.event)
         THEN [peer EXCEPT !.pc = "done", !.response = Response(200, EmptyBody)]
         ELSE IF ~IsPost(peer.event)
         THEN [peer EXCEPT !.pc = "done",
                           !.response = Response(405, ErrorBody(MethodNotAllowed, NoMessage))]
         ELSE LET f == Normalize(variant, peer.event) IN
              IF f.kind # "fields" \/ MissingFields(f)
              THEN [peer EXCEPT !.pc = "done", !.response = Rejection(variant, f)]
              ELSE [peer EXCEPT !.pc = "awaitModel", !.jobTitle = f.job_title,
                                !.attempt = 1, !.calls = 1, !.fnResult = Pending]
    /\ UNCHANGED <<replicate, mainVars>>

\* a model call of the second invocation settles
PeerModelSettles ==
    /\ peer.pc = "awaitModel"
    /\ \E r \in PeerResults :
        LET step == AttemptStep(variant, OwnAttempt(peer.attempt, attempt),
                                DefaultMaxRetries, peer.jobTitle, r)
        IN  peer' =
              IF step.next = "wait"
              THEN [peer EXCEPT !.pc = "awaitTimer", !.settled = Append(@, r)]
              ELSE [peer EXCEPT !.pc = "done", !.settled = Append(@, r),
                                !.fnResult = step.result,
                                !.response = RespondTo(step.result)]
    /\ UNCHANGED <<replicate, mainVars>>

\* a backoff timer of the second invocation fires
PeerTimerFires ==
    /\ peer.pc = "awaitTimer"
    /\ peer' =
         IF LoopContinues(peer.attempt + 1, DefaultMaxRetries)
         THEN [peer EXCEPT !.pc = "awaitModel", !.attempt = @ + 1, !.calls = @ + 1]
         ELSE [peer EXCEPT !.pc = "done", !.attempt = @ + 1,
                           !.fnResult = ReturnedUndefined,
                           !.response = RespondTo(ReturnedUndefined)]
    /\ UNCHANGED <<replicate, mainVars>>

ConcNext ==
    \/ HandlerPreflight
    \/ HandlerMethodNotAllowed
    \/ HandlerRejects
    \/ HandlerCallsExtraction
    \/ ModelSettles
    \/ TimerFires
    \/ PeerHandler
    \/ PeerModelSettles
    \/ PeerTimerFires

ConcSpec == ConcInit /\ [][ConcNext]_vars

\* every model call settles and every timer fires
FairSpec == Spec /\ WF_vars(Next)

(***************************************************************************)
(* Properties.                                                             *)
(***************************************************************************)
FailureKinds == {"callfail", "nonarray", "nonjson", "jsonnull", "invalid"}

Last(seq) == seq[Len(seq)]

RECURSIVE SumSeq(_)
SumSeq(seq) == IF seq = <<>> THEN 0 ELSE seq[1] + SumSeq(Tail(seq))

\* all maxRetries attempts were made and each had outcome kind k
AllAttempts(k) ==
    /\ maxRetries > 0
    /\ Len(outcomes) = maxRetries
    /\ \A i \in DOMAIN outcomes : outcomes[i] = k

\* the last of the maxRetries attempts has been made
FinalAttemptMade == maxRetries > 0 /\ Len(outcomes) = maxRetries

\* C1: whatever the outcomes of the attempts, the function terminates (each
\* model call and each timer completing) and the handler responds; the model is
\* invoked at most maxRetries times, no more than maxRetries attempts are made,
\* and no attempt or backoff wait runs with an attempt number above maxRetries.
\* (The for statement's last increment, to maxRetries + 1, makes the loop test
\* fail: no attempt runs with it.)
C1_BoundedTermination ==
    /\ [](/\ calls <= maxRetries
          /\ Len(outcomes) <= calls
          /\ calls <= Len(outcomes) + 1
          /\ pc \in {"awaitModel", "awaitTimer"} => attempt \in 1..maxRetries
          /\ pc = "awaitModel" => calls = attempt)
    /\ <>(pc = "done" /\ fnResult.kind # "pending")

C1_Witness ==
    /\ pc = "done"
    /\ calls = 3
    /\ outcomes = <<"callfail", "nonjson", "invalid">>

\* C2: when the text of every one of the maxRetries attempts fails to parse as
\* JSON, the function has ended after exactly maxRetries model calls: the
\* throwing variants throw the "Failed to extract valid JSON" error, whose
\* message carries maxRetries and the last response text; part_001 returns the
\* degraded record.
C2_NonJsonExhaustion ==
    AllAttempts("nonjson") =>
        /\ pc = "done"
        /\ calls = maxRetries
        /\ responseText # NoText
        /\ variant # "part001" =>
              /\ fnResult.kind = "throw"
              /\ fnResult.error.m =
                   "Failed to extract valid JSON after ${maxRetries} attempts. Last response: ${responseText}"
              /\ fnResult.error.n = 3
              /\ fnResult.error.text = responseText
        /\ variant = "part001" =>
              /\ fnResult.kind = "return"
              /\ fnResult.source = "fallback"
              /\ fnResult.error.m = "Failed to parse AI response as JSON"

C2_Witness ==
    /\ variant = "netlify"
    /\ AllAttempts("nonjson")
    /\ fnResult.kind = "throw"
    /\ fnResult.error.text.fence = "json"

\* C3: a response that parses but fails the validation, given on the final
\* attempt, ends the function with the exhaustion outcome: a thrown error in
\* the throwing variants, the degraded record with an error field in part_001.
C3_SchemaViolationSurfaced ==
    (pc = "done" /\ FinalAttemptMade /\ Last(outcomes) = "invalid") =>
        IF variant = "part001"
        THEN fnResult.kind = "return" /\ fnResult.source = "fallback"
             /\ fnResult.error # NoMessage
        ELSE fnResult.kind = "throw"

\* C4: the body of every 200 response to a POST is the serialization of an
\* object: a result that passed the validation or, in part_001 only, the
\* degraded record; never an absent body.
C4_OkBodyIsObject ==
    (response.statusCode = 200 /\ event.httpMethod = "POST") =>
        /\ response.body.kind = "result"
        /\ \/ fnResult.source = "model"
           \/ fnResult.source = "fallback" /\ variant = "part001"

\* C5: the wait that follows failed attempt n is 1000*n ms, and waits follow
\* failed attempts only; when attempts 1 and 2 fail and attempt 3 is valid,
\* the function returns the object of attempt 3 after exactly the two waits
\* 1000 ms and 2000 ms, in that order.
C5_LinearBackoff ==
    /\ Len(waits) <= Len(outcomes)
    /\ \A i \in DOMAIN waits : waits[i] = 1000 * i /\ outcomes[i] \in FailureKinds
    /\ (Len(outcomes) = 3 /\ outcomes[3] = "valid") =>
          /\ outcomes[1] \in FailureKinds /\ outcomes[2] \in FailureKinds
          /\ pc = "done"
          /\ waits = <<1000, 2000>>
          /\ calls = 3
          /\ fnResult.kind = "return" /\ fnResult.source = "model"
          /\ JSONParse(responseText).ok
          /\ fnResult.obj = JSONParse(responseText).value.o

C5_Witness ==
    /\ pc = "done"
    /\ outcomes = <<"nonjson", "nonjson", "valid">>
    /\ waits = <<1000, 2000>>
    /\ fnResult.obj = BaseFull

\* C6: a wait follows failed attempt n only when n < maxRetries, so the waits
\* of one request total at most 1000*(1+...+(maxRetries-1)) ms.
C6_NoWaitAfterFinalAttempt ==
    /\ \A i \in DOMAIN waits : i < maxRetries
    /\ SumSeq(waits) <= 1000 * ((maxRetries * (maxRetries - 1)) \div 2)

\* C7: the first attempt whose object passes the validation ends the function
\* with that object: it is the last attempt, the number of model calls is its
\* index, one wait preceded each earlier attempt and none follows.
C7_ReturnsFirstValid ==
    \A i \in DOMAIN outcomes :
        outcomes[i] = "valid" =>
            /\ i = Len(outcomes)
            /\ pc = "done"
            /\ calls = i
            /\ attempt = i
            /\ Len(waits) = i - 1
            /\ fnResult.kind = "return" /\ fnResult.source = "model"
            /\ JSONParse(responseText).ok
            /\ fnResult.obj = JSONParse(responseText).value.o
            /\ response.statusCode = 200
            /\ response.body.kind = "result" /\ response.body.obj = fnResult.obj

C7_Witness ==
    /\ outcomes = <<"invalid", "valid">>
    /\ calls = 2
    /\ pc = "done"

\* the acceptance condition of the specification, on the keys of an object
Accepted(v, o) ==
    /\ o.job_title.t \notin {"null", "undefined"}
    /\ o.job_title \notin {Str(""), Num("0"), Num("NaN"), JS("boolean", "false")}
    /\ o.city = Null \/ o.city.t = "string"
    /\ o.work_arrangement \in {Null, Str("remote"), Str("hybrid"), Str("on-site")}
    /\ o.experience \in
          {Null, Str("Entry (0-2 Years)"), Str("Mid (3-5 Years)"),
           Str("Senior (6-8 Years)"), Str("Lead (8+ Years)")}
    /\ v = "part001" => (o.company = Null \/ o.company.t = "string")

\* C8: a parsed response is accepted exactly when job_title is truthy, city is
\* null or a string, work_arrangement is null or one of the three lowercase
\* literals, experience is null or one of the four labels and (part_001)
\* company is null or a string; so every result that came from the model has
\* work_arrangement and experience null or inside the sets, and none of the
\* validated keys absent.
C8_AcceptedIffValid ==
    /\ (outcomes # <<>> /\ responseText # NoText
        /\ Last(outcomes) \in {"valid", "invalid", "jsonnull"}) =>
          LET p == JSONParse(responseText) IN
          /\ p.ok
          /\ Last(outcomes) = "valid" <=>
                (p.value.t = "object" /\ Accepted(variant, p.value.o))
    /\ fnResult.source = "model" =>
          /\ Accepted(variant, fnResult.obj)
          /\ fnResult.obj.city # Undefined
          /\ fnResult.obj.work_arrangement # Undefined
          /\ fnResult.obj.experience # Undefined
          /\ variant = "part001" => fnResult.obj.company # Undefined

C8_Witness ==
    /\ outcomes = <<"invalid", "valid">>
    /\ fnResult.source = "model"
    /\ fnResult.obj.work_arrangement = Str("hybrid")
    /\ fnResult.obj.experience = Str("Senior (6-8 Years)")

\* C9: in part_001, when the final attempt ends in a parse failure or a failed
\* model call, the function returns the record with job_title equal to the
\* title it was given (the request's title, unchanged), every other key null
\* and a non-empty error, and the handler answers 200 with that record.
C9_DegradedRecord ==
    (variant = "part001" /\ FinalAttemptMade
     /\ Last(outcomes) \in {"nonjson", "jsonnull", "callfail", "nonarray"}) =>
        /\ pc = "done"
        /\ fnResult.kind = "return"
        /\ fnResult.obj.job_title = jobTitle
        /\ event.body.enc = "json" => jobTitle = event.body.job_title
        /\ fnResult.obj.city = Null
        /\ fnResult.obj.work_arrangement = Null
        /\ fnResult.obj.company = Null
        /\ fnResult.obj.experience = Null
        /\ fnResult.error.prefix # "" \/ fnResult.error.m # ""
        /\ response.statusCode = 200
        /\ response.body.kind = "result"
        /\ response.body.obj = fnResult.obj
        /\ response.body.objError = fnResult.error

C9_Witness ==
    /\ variant = "part001"
    /\ outcomes = <<"invalid", "nonjson", "callfail">>
    /\ jobTitle = Title2
    /\ response.body.obj.job_title = Title2
    /\ response.body.objError.prefix = "AI processing failed: "

\* C10: in part_001 a request that reached the extraction is answered 200
\* whatever the model did: the function never throws.
C10_DegradeNever500 ==
    (variant = "part001" /\ fnResult.kind # "notcalled") =>
        /\ fnResult.kind # "throw"
        /\ pc = "done" => response.statusCode = 200

C10_Witness ==
    /\ variant = "part001"
    /\ pc = "done"
    /\ outcomes = <<"nonarray", "invalid", "callfail">>
    /\ response.statusCode = 200

\* a field that is missing or empty: undefined, null or ''
Missing(x) == x \in {Undefined, Null, Str("")}

\* the request carries a content type none of the branches recognizes, or none
UnrecognizedType(e) ==
    /\ e.headers.lower \in {Str(PlainType), Undefined}
    /\ e.headers.upper = Undefined

\* the body is JSON text of a value whose two fields can be read
ReadableJson(body) == body.enc \in {"json", "jsonprimitive"}

\* the same request declaring Content-Type: application/json
AsJsonRequest(e) == [e EXCEPT !.headers = [lower |-> Str(JsonType), upper |-> Undefined]]

\* C11: in extract-job-details.js, when each of the maxRetries attempts has
\* failed, the handler answers 500 with {error: "Failed to extract job details",
\* details}; details is the message of the final attempt's failure: the message
\* of the error of the call if the last attempt was a failed call, the "Failed
\* to extract valid JSON after N attempts. Last response: <text>" message with
\* the last response text if it was a parse failure.
C11_ExhaustionAnswers500 ==
    (/\ variant = "netlify"
     /\ pc = "done"
     /\ FinalAttemptMade
     /\ \A i \in DOMAIN outcomes : outcomes[i] \in FailureKinds) =>
        /\ response.statusCode = 500
        /\ response.body.kind = "error"
        /\ response.body.error = "Failed to extract job details"
        /\ response.body.details # NoMessage
        /\ response.body.details = lastError
        /\ Last(outcomes) \in {"nonjson", "jsonnull"} =>
               response.body.details = ExhaustedError(maxRetries, responseText)

\* C12: a request with method OPTIONS is answered 200 with an empty body
\* whatever its headers, body and query parameters; its body is never parsed
\* and the model is never called.
C12_PreflightAlwaysEmpty200 ==
    event.httpMethod = "OPTIONS" =>
        /\ pc \in {"start", "done"}
        /\ fields.kind = "none"
        /\ calls = 0
        /\ fnResult.kind = "notcalled"
        /\ pc = "done" => /\ response.statusCode = 200
                          /\ response.body.kind = "empty"

C12_Witness ==
    /\ pc = "done"
    /\ event.httpMethod = "OPTIONS"
    /\ event.headers.lower = Str(MultipartType)
    /\ event.body = Body("garbage", Title1, Desc1)
    /\ event.queryStringParameters = FullQuery
    /\ response.statusCode = 200
    /\ response.body.kind = "empty"

\* C13: a request whose method is neither OPTIONS nor POST is answered 405
\* with {"error": "Method not allowed"}; its body is never parsed and the
\* model is never called, even if it carries both fields.
C13_OtherMethods405 ==
    event.httpMethod \notin {"OPTIONS", "POST"} =>
        /\ pc \in {"start", "done"}
        /\ fields.kind = "none"
        /\ calls = 0
        /\ fnResult.kind = "notcalled"
        /\ pc = "done" => /\ response.statusCode = 405
                          /\ response.body.kind = "error"
                          /\ response.body.error = "Method not allowed"
                          /\ response.body.details = NoMessage
                          /\ ~response.body.received.present

C13_Witness ==
    /\ pc = "done"
    /\ event.httpMethod = "GET"
    /\ event.headers.lower = Str(JsonType)
    /\ event.body = BaseBody
    /\ response.statusCode = 405

\* C14: a POST whose job_title or job_description is missing or empty once
\* the body (and the query parameters) have been read is answered 400 in the
\* same step: no model call, no attempt, no backoff wait.
C14_MissingFields400 ==
    (/\ event.httpMethod = "POST"
     /\ fields.kind = "fields"
     /\ Missing(fields.job_title) \/ Missing(fields.job_description)) =>
        /\ pc = "done"
        /\ response.statusCode = 400
        /\ response.body.kind = "error"
        /\ calls = 0
        /\ outcomes = <<>>
        /\ waits = <<>>
        /\ fnResult.kind = "notcalled"

C14_Witness ==
    /\ pc = "done"
    /\ event.httpMethod = "POST"
    /\ event.body = Body("json", Title1, Str(""))
    /\ event.queryStringParameters = NoQuery
    /\ fields = Fields(Title1, Str(""))
    /\ response.statusCode = 400

\* C15: a POST whose body cannot be parsed under its declared content type is
\* answered 400, never 500, and the model is not called; so for a request
\* declaring application/json whose body is no JSON text or is JSON null.
C15_UnparseableBody400 ==
    (/\ event.httpMethod = "POST"
     /\ pc = "done"
     /\ fields.kind \in {"throw", "respond"}) =>
        /\ response.statusCode = 400
        /\ calls = 0

\* C16: every response of the handler, whatever its status, carries
\* Access-Control-Allow-Origin: *, Access-Control-Allow-Headers: Content-Type
\* and Access-Control-Allow-Methods: POST, OPTIONS.
C16_CorsOnEveryResponse ==
    pc = "done" =>
        /\ response.statusCode \in {200, 400, 405, 500}
        /\ response.headers.allowOrigin = "*"
        /\ response.headers.allowHeaders = "Content-Type"
        /\ response.headers.allowMethods = "POST, OPTIONS"

C16_Witness ==
    /\ pc = "done"
    /\ response.statusCode = 500
    /\ calls = 3
    /\ response.headers.allowOrigin = "*"
    /\ response.headers.allowMethods = "POST, OPTIONS"

\* C17: the model is called only with a job_title and a job_description that
\* are non-empty strings; a JSON body with a non-string field is answered 400.
C17_OnlyStringsReachModel ==
    calls > 0 =>
        /\ jobTitle.t = "string" /\ jobTitle.v # ""
        /\ jobDescription.t = "string" /\ jobDescription.v # ""

\* C18: in extract-job-details.js and the busboy variant, when a field is
\* missing after the body has been read and queryStringParameters is
\* supplied, each missing field is read from the query parameters and a field
\* the body gave is kept; the extraction is then called iff both are present.
C18_QueryFallback ==
    LET b == ParseBody(variant, event)
        q == event.queryStringParameters
    IN  (/\ variant \in {"netlify", "busboy"}
         /\ event.httpMethod = "POST"
         /\ pc # "start"
         /\ b.kind = "fields"
         /\ Missing(b.job_title) \/ Missing(b.job_description)
         /\ q.present) =>
            /\ fields.kind = "fields"
            /\ fields.job_title =
                 IF Missing(b.job_title) THEN q.job_title ELSE b.job_title
            /\ fields.job_description =
                 IF Missing(b.job_description) THEN q.job_description
                 ELSE b.job_description
            /\ calls > 0 <=>
                 ~Missing(fields.job_title) /\ ~Missing(fields.job_description)
            /\ calls > 0 => /\ jobTitle = fields.job_title
                            /\ jobDescription = fields.job_description

C18_Witness ==
    /\ variant = "busboy"
    /\ event.body = Body("json", Title1, Str(""))
    /\ event.queryStringParameters = FullQuery
    /\ calls > 0
    /\ jobTitle = Title1
    /\ jobDescription = Desc1

\* C19: a POST to extract-job-details.js that gives both fields in the query
\* parameters only, with an empty or absent body, reaches the extraction
\* whatever its content type.
C19_QueryOnlyReachesExtraction ==
    (/\ variant = "netlify"
     /\ event.httpMethod = "POST"
     /\ pc # "start"
     /\ event.body.enc \in {"empty", "absent"}
     /\ event.queryStringParameters.present
     /\ ~Missing(event.queryStringParameters.job_title)
     /\ ~Missing(event.queryStringParameters.job_description)) =>
        /\ calls > 0
        /\ jobTitle = event.queryStringParameters.job_title
        /\ jobDescription = event.queryStringParameters.job_description

\* C20: a POST with an unrecognized or missing content type has its body
\* parsed as JSON.  If the parse, or the reading of the two fields, fails,
\* the answer is 400 "Invalid request format" and the model is not called;
\* otherwise the request goes the way of the same request declaring
\* application/json.  (The handlers that look at the content type.)
C20_DefaultIsJson ==
    (/\ variant # "simple"
     /\ event.httpMethod = "POST"
     /\ pc # "start"
     /\ UnrecognizedType(event)) =>
        IF ReadableJson(event.body)
        THEN /\ fields = Normalize(variant, AsJsonRequest(event))
             /\ fields.kind = "fields"
             /\ calls > 0 <=> ~MissingFields(fields)
             /\ calls = 0 => response = Response(400, MissingBody(variant, fields))
        ELSE /\ pc = "done"
             /\ response.statusCode = 400
             /\ response.body.kind = "error"
             /\ response.body.error =
                  "Invalid request format. Use JSON or URL-encoded form data."
             /\ calls = 0

C20_Witness ==
    /\ variant = "part001"
    /\ pc = "done"
    /\ event.headers.lower = Undefined
    /\ event.body.enc = "jsonnull"
    /\ response.statusCode = 400
    /\ response.body.error = InvalidFormat

\* the request declares application/json in its content-type header
DeclaresJson(e) ==
    /\ e.headers.lower \in {Str(JsonType), Str("application/json; charset=utf-8")}
    /\ e.headers.upper = Undefined

\* C21: for a JSON body in which job_title and job_description are both
\* present, extractJobDetailsWithRetry is called with exactly the body's two
\* values, and the prompt embeds them: nothing is trimmed, nothing is taken
\* from the query parameters.
C21_JsonPairUnchanged ==
    (/\ event.httpMethod = "POST"
     /\ pc # "start"
     /\ DeclaresJson(event)
     /\ event.body.enc = "json"
     /\ ~Missing(event.body.job_title)
     /\ ~Missing(event.body.job_description)) =>
        /\ calls > 0
        /\ jobTitle = event.body.job_title
        /\ jobDescription = event.body.job_description
        /\ prompt.title = event.body.job_title.v
        /\ prompt.description = event.body.job_description.v

C21_Witness ==
    /\ pc = "awaitModel"
    /\ DeclaresJson(event)
    /\ event.body = Body("json", Title2, Desc1)
    /\ jobTitle = Str(" Data Engineer ")
    /\ prompt.title = " Data Engineer "

\* C22: for a multipart/form-data body with the text fields job_title and
\* job_description, the boundary-splitting parser gives both values exactly as
\* sent, values of several lines and values with white space at their ends
\* included.
C22_MultipartValuesExact ==
    (/\ variant \in {"netlify", "part001"}
     /\ event.httpMethod = "POST"
     /\ pc # "start"
     /\ event.headers.lower = Str(MultipartType)
     /\ event.body.enc = "multipart"
     /\ event.body.job_title.t = "string"
     /\ event.body.job_description.t = "string") =>
        /\ fields.kind = "fields"
        /\ fields.job_title = event.body.job_title
        /\ fields.job_description = event.body.job_description

\* the text a form-urlencoded value stands for
DecodedSample(x) ==
    CASE x = FormTitle1 -> Str("Data Engineer")
      [] x = FormTitle2 -> Str("C++ Developer")
      [] x = FormDesc1 -> Str("Remote, 5+ years")
      [] x = Desc1 -> Str("5  years of experience. Richmond, Virginia, USA")
      [] OTHER -> x

\* the JSON request that carries the decoded values of a form request
JsonTwin(e) ==
    Event("POST", Str(JsonType), Undefined,
          Body("json", DecodedSample(e.body.job_title),
               DecodedSample(e.body.job_description)),
          e.queryStringParameters)

\* C23: for a form-urlencoded body the handler decodes '+' and the percent
\* escapes of both values; the pair it reads, and so what it does next, is
\* that of the JSON body carrying the decoded values.
C23_FormEqualsJson ==
    (/\ variant # "simple"
     /\ event.httpMethod = "POST"
     /\ pc # "start"
     /\ event.headers.lower = Str(FormType)
     /\ event.body.enc = "urlencoded"
     /\ event.body.job_title.t = "string"
     /\ event.body.job_description.t = "string") =>
        /\ fields.kind = "fields"
        /\ fields.job_title = DecodedSample(event.body.job_title)
        /\ fields.job_description = DecodedSample(event.body.job_description)
        /\ fields = Normalize(variant, JsonTwin(event))
        /\ calls > 0 <=>
             ~Missing(fields.job_title) /\ ~Missing(fields.job_description)
        /\ calls > 0 => /\ jobTitle = DecodedSample(event.body.job_title)
                        /\ jobDescription = DecodedSample(event.body.job_description)
        /\ calls = 0 => response = Response(400, MissingBody(variant, fields))

C23_Witness ==
    /\ variant = "netlify"
    /\ event.headers.lower = Str(FormType)
    /\ event.body = Body("urlencoded", FormTitle2, FormDesc1)
    /\ calls > 0
    /\ jobTitle = Str("C++ Developer")
    /\ jobDescription = Str("Remote, 5+ years")

\* the outcome of an attempt whose response is the bare JSON text of value
BareOutcome(v, text) ==
    IF text.syntax # "json" THEN "nonjson"
    ELSE IF text.value.t = "null" THEN "jsonnull"
    ELSE IF Accepted(v, text.value.o) /\ text.value.t = "object" THEN "valid"
    ELSE "invalid"

\* C24: an attempt whose response wraps its text in a Markdown code fence
\* (```json ... ``` or ``` ... ```) has the outcome of the attempt whose
\* response is the text without the fence: the same object accepted, or the
\* same rejection.
C24_FenceTransparent ==
    (/\ pc \in {"awaitTimer", "done"}
     /\ output.fence \in {"json", "plain"}) =>
        /\ Last(outcomes) = BareOutcome(variant, output)
        /\ Last(outcomes) = "valid" =>
             /\ fnResult.kind = "return"
             /\ fnResult.obj = output.value.o

\* C25: within one request the loop is sequential.  At most one model call is
\* in flight; a call other than the first is started by the firing of the
\* backoff timer, when every earlier attempt has been seen to fail and the
\* wait of 1000 * n ms after attempt n has been awaited; the handler responds
\* only when extractJobDetailsWithRetry has returned or thrown.
C25_SequentialLoop ==
    /\ [](/\ calls - Len(outcomes) \in {0, 1}
          /\ calls - Len(outcomes) = 1 <=> pc = "awaitModel"
          /\ pc = "awaitModel" =>
               /\ Len(outcomes) = attempt - 1
               /\ Len(waits) = attempt - 1
               /\ \A i \in 1..(attempt - 1) :
                     /\ outcomes[i] \in FailureKinds
                     /\ waits[i] = 1000 * i
          /\ pc # "done" => response = NoResponse
          /\ (pc = "done" /\ calls > 0) =>
               fnResult.kind \in {"return", "undefined", "throw"})
    /\ [][calls' # calls =>
            /\ calls' = calls + 1
            /\ calls = 0 \/ pc = "awaitTimer"]_vars

C25_Witness ==
    /\ pc = "awaitModel"
    /\ attempt = 3
    /\ calls = 3
    /\ outcomes = <<"nonjson", "callfail">>
    /\ waits = <<1000, 2000>>
    /\ response = NoResponse

\* C27: every attempt of a request hands the model the same input: the prompt
\* rendered from (jobTitle, jobDescription) before the loop, which no failure
\* changes, and max_new_tokens 200.
C27_SameInputEveryAttempt ==
    /\ [](/\ Len(inputs) = calls
          /\ calls > 0 =>
               /\ prompt.title = jobTitle.v
               /\ prompt.description = jobDescription.v
          /\ \A i \in DOMAIN inputs :
               /\ inputs[i].prompt = prompt
               /\ inputs[i].max_new_tokens = 200)
    /\ [][calls > 0 =>
            /\ prompt' = prompt
            /\ \A i \in DOMAIN inputs : inputs'[i] = inputs[i]]_vars

C27_Witness ==
    /\ calls = 3
    /\ outcomes = <<"callfail", "invalid">>
    /\ inputs[1] = inputs[3]
    /\ inputs[3].max_new_tokens = 200
    /\ inputs[3].prompt.title = " Data Engineer "

\* C28: every invocation whose event has a headers map ends with one
\* response, of status 200, 400, 405 or 500, which is not replaced; the model
\* is called only for a POST whose job_title and job_description were both
\* truthy once the body and the query parameters had been read.
C28_OneResponse ==
    /\ [](/\ pc # "done" <=> response = NoResponse
          /\ pc = "done" => response.statusCode \in {200, 400, 405, 500}
          /\ calls > 0 =>
               /\ event.httpMethod = "POST"
               /\ fields.kind = "fields"
               /\ Truthy(fields.job_title)
               /\ Truthy(fields.job_description))
    /\ [][response # NoResponse => response' = response]_vars
    /\ <>(pc = "done")

C28_Witness ==
    /\ pc = "done"
    /\ event.httpMethod = "POST"
    /\ fields.kind = "respond"
    /\ calls = 0
    /\ response.statusCode = 400

\* C29: in part_001 the error field of the degraded record comes from the
\* final attempt alone, whatever the earlier attempts were: "Failed to parse
\* AI response as JSON" when its text did not parse, "AI processing failed: "
\* followed by the message of the error when its call, or the handling of its
\* output, threw.
C29_FallbackErrorFromFinalAttempt ==
    (/\ variant = "part001"
     /\ pc = "done"
     /\ FinalAttemptMade) =>
        /\ Last(outcomes) = "nonjson" =>
             /\ response.body.objError.prefix = ""
             /\ response.body.objError.m = "Failed to parse AI response as JSON"
        /\ Last(outcomes) \in {"callfail", "nonarray"} =>
             /\ response.body.objError.prefix = "AI processing failed: "
             /\ response.body.objError.m = lastError.m
             /\ lastError.m # ""

C29_Witness ==
    /\ variant = "part001"
    /\ pc = "done"
    /\ outcomes = <<"nonjson", "nonjson", "callfail">>
    /\ response.body.objError.prefix = "AI processing failed: "
    /\ response.body.objError.m = "Request timed out"

\* a multipart request the parser of the busboy variant rejects
BusboyRejects(e) ==
    /\ e.headers.lower \in {Str(MultipartType), Str(MultipartNoBoundary)}
    /\ \/ e.headers.lower = Str(MultipartNoBoundary)
       \/ e.body.enc # "multipart"

\* C30: in the busboy variant a multipart/form-data request that the parser
\* rejects is answered 400 "Error parsing multipart form data"; the model is
\* not called and the query parameters are not read, even when they give both
\* fields.
C30_BusboyRejection400 ==
    (/\ variant = "busboy"
     /\ event.httpMethod = "POST"
     /\ pc # "start"
     /\ BusboyRejects(event)) =>
        /\ pc = "done"
        /\ response.statusCode = 400
        /\ response.body.kind = "error"
        /\ response.body.error = "Error parsing multipart form data"
        /\ fields.kind = "respond"
        /\ fields.job_title = Undefined
        /\ calls = 0

C30_Witness ==
    /\ variant = "busboy"
    /\ pc = "done"
    /\ event.headers.lower = Str(MultipartNoBoundary)
    /\ event.queryStringParameters = FullQuery
    /\ response.statusCode = 400
    /\ response.body.error = "Error parsing multipart form data"

\* what extractJobDetailsWithRetry comes to when its model calls, one after the
\* other from attempt n on, settle with the given results
RECURSIVE RunLoop(_, _, _, _)
RunLoop(v, title, n, results) ==
    IF ~(n <= 3) THEN ReturnedUndefined
    ELSE IF results = <<>> THEN Pending
    ELSE LET step == AttemptStep(v, n, 3, title, Head(results))
         IN  IF step.next = "wait"
             THEN RunLoop(v, title, n + 1, Tail(results))
             ELSE step.result

\* the response of an invocation run on its own with that event and those
\* results of its model calls
OwnResponse(v, e, results) ==
    IF e.httpMethod = "OPTIONS" THEN Response(200, EmptyBody)
    ELSE IF e.httpMethod # "POST"
    THEN Response(405, ErrorBody("Method not allowed", NoMessage))
    ELSE LET f == Normalize(v, e)
         IN  IF f.kind # "fields" \/ Missing(f.job_title) \/ Missing(f.job_description)
             THEN Rejection(v, f)
             ELSE RespondTo(RunLoop(v, f.job_title, 1, results))

\* C26: when two invocations of the handler run interleaved in one process,
\* each one's response is that of the invocation run alone on its own event
\* and the results of its own model calls; each has its own attempt counter,
\* fields and result; a step of one leaves the other's state as it was, and
\* the shared client is never written.
C26_InvocationsIndependent ==
    /\ [](/\ replicate = [auth |-> "REPLICATE_API_TOKEN"]
          /\ peer.pc = "done" =>
               peer.response = OwnResponse(variant, peer.event, peer.settled)
          /\ peer.pc = "awaitModel" =>
               /\ peer.attempt = Len(peer.settled) + 1
               /\ peer.calls = peer.attempt
          /\ peer.pc = "awaitTimer" => peer.attempt = Len(peer.settled)
          /\ pc = "awaitModel" =>
               /\ attempt = Len(outcomes) + 1
               /\ calls = attempt
          /\ pc = "awaitTimer" => attempt = Len(outcomes)
          /\ (pc = "done" /\ calls > 0) =>
               /\ response = RespondTo(fnResult)
               /\ jobTitle = event.body.job_title)
    /\ [][/\ peer' # peer => UNCHANGED mainVars
          /\ mainVars' # mainVars => peer' = peer
          /\ replicate' = replicate]_vars

C26_Witness ==
    /\ variant = "netlify"
    /\ pc = "done"
    /\ peer.pc = "done"
    /\ outcomes = <<"callfail", "callfail", "callfail">>
    /\ response.statusCode = 500
    /\ Len(peer.settled) = 1
    /\ peer.calls = 1
    /\ peer.response.statusCode = 200
    /\ peer.response.body.obj = BaseFull

====
